---- MODULE Spec2Model ----
(***************************************************************************)
(* Model of execution/async_verifier.py: the MX resolver, the SMTP probe,  *)
(* catch-all detection, greylist retry and the batch API of the            *)
(* asynchronous e-mail verifier.                                           *)
(*                                                                         *)
(* The program runs on one asyncio event loop: the code between two        *)
(* suspension points (an await that really waits: a DNS query, an SMTP     *)
(* dialogue, a sleep, a semaphore that has no free slot) runs atomically.  *)
(* Each action below is one such stretch of one coroutine.                 *)
(***************************************************************************)
EXTENDS Integers, Sequences, FiniteSets, TLC

\* ------------------------------------------------------------------ bounds

\* Longest input list handed to verify_batch.
MaxLen == 3
\* Largest max_concurrent / max_per_domain / greylist_max_retries an engine
\* is constructed with.
MaxConcurrentCap == 2
MaxPerDomainCap == 2
MaxRetriesCap == 1
\* Most verify_batch calls made, one after the other, on one engine.
MaxCalls == 2
\* Largest ttl_seconds an MXResolver is constructed with, the latest time
\* its clock reaches and the most resolve calls made on it.
MaxTtl == 2
MaxTime == 3
MaxResolves == 3
\* Most MX records in one DNS answer.
MaxRecords == 3
\* Most verify_batch calls overlapping on one engine, and most addresses in
\* each.
MaxOverlap == 2
MaxOverlapLen == 2

\* --------------------------------------------------------------- data model

\* Python's None.
None == "None"

\* An address is a sequence of characters.
Char == {"a", "b", "x", "X", "y", "@"}

\* str.lower() on one character.
LowerChar(c) == IF c = "X" THEN "x" ELSE c

\* str.lower()
Lower(s) == [k \in 1..Len(s) |-> LowerChar(s[k])]

\* Position of the first "@" of s (s holds one).
FirstAt(s) == CHOOSE k \in 1..Len(s) : s[k] = "@" /\ \A j \in 1..(k-1) : s[j] # "@"

HasAt(s) == \E k \in 1..Len(s) : s[k] = "@"

\* email.split("@")[1]: what lies between the first "@" and the next one.
SplitAt1(s) ==
  LET rest == SubSeq(s, FirstAt(s) + 1, Len(s))
  IN  IF HasAt(rest) THEN SubSeq(rest, 1, FirstAt(rest) - 1) ELSE rest

\* AsyncEmailVerifier._get_domain
GetDomain(email) == IF HasAt(email) THEN Lower(SplitAt1(email)) ELSE <<>>

\* The addresses verified: two mailboxes of one domain (written in lower and
\* in upper case), a mailbox of a second domain, an address with no "@", one
\* with an empty domain part and one with two "@".
Addresses ==
  { <<"a", "@", "x">>, <<"b", "@", "X">>, <<"a", "@", "y">>,
    <<"a", "b">>, <<"a", "@">>, <<"a", "@", "x", "@", "y">> }

\* The addresses the lists of a concurrent batch are drawn from.
BatchAddresses == { <<"a", "@", "x">>, <<"b", "@", "X">>, <<"a", "b">> }

\* The keys the engine's dictionaries can get.
Domains == {GetDomain(e) : e \in Addresses}

\* VerificationResult(email=...) with the dataclass defaults.  valid is the
\* tri-state "True" / "False" / "None"; code is <<>> for None and <<c>> for a
\* response code c; error is None or the error string.
NewResult(email) ==
  [ email |-> email, valid |-> None, code |-> <<>>, error |-> None,
    catch_all |-> FALSE, greylist |-> FALSE, confidence |-> "high",
    attempts |-> 1 ]

\* ---------------------------------------------------------------- the probe

\* What the mail host can answer to RCPT TO: the codes the probe tells apart,
\* and two it does not (421, 452).
RcptCodes == {250, 450, 451, 550, 551, 552, 553, 554, 421, 452}

\* How a step of the dialogue can fail: asyncio.TimeoutError, an
\* aiosmtplib.SMTPException, any other Exception (ConnectionRefusedError, ...).
Failures == {"timeout", "smtp_error", "error"}

\* The protocol steps _smtp_verify issues, in the order of the code.
Steps == <<"connect", "ehlo", "mail", "rcpt", "quit">>

\* The answers the environment can give to a step: the step succeeds
\* ("ok"), RCPT TO returns a response code, or the step raises.
Ok == [k |-> "ok"]
Code(c) == [k |-> "code", code |-> c]
Raises(f) == [k |-> "exc", exc |-> f]

Answers(step) ==
  IF step = "rcpt"
    THEN {Code(c) : c \in RcptCodes} \cup {Raises(f) : f \in Failures}
    ELSE {Ok} \cup {Raises(f) : f \in Failures}

\* A probe at its start: result = VerificationResult(email=email), nothing
\* sent yet, no exception pending.  sent is the history of the steps issued
\* and swallowed tells that quit raised.
ProbeStart(email) ==
  [ pc |-> "connect", res |-> NewResult(email), exc |-> None, sent |-> <<>>,
    swallowed |-> FALSE ]

\* Classify with 554 left out of the permanent rejections and the code not
\* recorded for 451.
ClassifyNarrow(res, code) ==
  LET r == [res EXCEPT !.code = IF code = 451 THEN <<>> ELSE <<code>>]
  IN  IF code = 250 THEN [r EXCEPT !.valid = "True"]
      ELSE IF code \in {450, 451}
        THEN [r EXCEPT !.valid = None, !.greylist = TRUE, !.confidence = "unknown"]
      ELSE IF code \in {550, 551, 552, 553} THEN [r EXCEPT !.valid = "False"]
      ELSE [r EXCEPT !.valid = None, !.confidence = "unknown"]

\* The classification of the RCPT TO response code.
Classify(res, code) ==
  LET r == [res EXCEPT !.code = <<code>>]
  IN  IF code = 250 THEN [r EXCEPT !.valid = "True"]
      ELSE IF code \in {450, 451}
        THEN [r EXCEPT !.valid = None, !.greylist = TRUE, !.confidence = "unknown"]
      ELSE IF code \in {550, 551, 552, 553, 554} THEN [r EXCEPT !.valid = "False"]
      ELSE [r EXCEPT !.valid = None, !.confidence = "unknown"]

\* Handle naming the failures protocol_error and connection_error.
HandleRenamed(p) ==
  LET err == IF p.exc = "timeout" THEN "timeout"
             ELSE IF p.exc = "smtp_error" THEN "protocol_error"
             ELSE "connection_error"
  IN  [p EXCEPT !.pc = "return",
                !.res = [p.res EXCEPT !.error = err, !.valid = None,
                                      !.confidence = "unknown"]]

\* Handle without its last clause, "except Exception".
HandleNoFallback(p) ==
  LET err == IF p.exc = "timeout" THEN "timeout" ELSE "smtp_error: "
  IN  IF p.exc \notin {"timeout", "smtp_error"} THEN [p EXCEPT !.pc = "raise"]
      ELSE [p EXCEPT !.pc = "return",
                     !.res = [p.res EXCEPT !.error = err, !.valid = None,
                                           !.confidence = "unknown"]]

\* The except clauses of _smtp_verify: every Exception is caught by one of
\* them.  (pc = "raise" would be an exception that leaves the probe.)
Handle(p) ==
  LET err == IF p.exc = "timeout" THEN "timeout"
             ELSE IF p.exc = "smtp_error" THEN "smtp_error: "
             ELSE "error: "
  IN  [p EXCEPT !.pc = "return",
                !.res = [p.res EXCEPT !.error = err, !.valid = None,
                                      !.confidence = "unknown"]]

\* ProbeStep without the finally clause: a failed step after connect goes
\* straight to the handlers.
ProbeStepNoFinally(p, a) ==
  LET q == [p EXCEPT !.sent = Append(p.sent, p.pc)]
  IN  CASE p.pc = "connect" ->
             IF a.k = "ok" THEN [q EXCEPT !.pc = "ehlo"]
             ELSE Handle([q EXCEPT !.exc = a.exc])
        [] p.pc = "ehlo" ->
             IF a.k = "ok" THEN [q EXCEPT !.pc = "mail"]
             ELSE Handle([q EXCEPT !.exc = a.exc])
        [] p.pc = "mail" ->
             IF a.k = "ok" THEN [q EXCEPT !.pc = "rcpt"]
             ELSE Handle([q EXCEPT !.exc = a.exc])
        [] p.pc = "rcpt" ->
             IF a.k = "code"
               THEN [q EXCEPT !.pc = "quit", !.res = Classify(p.res, a.code)]
               ELSE Handle([q EXCEPT !.exc = a.exc])
        [] p.pc = "quit" ->
             LET w == [q EXCEPT !.swallowed = (a.k = "exc")]
             IN  IF w.exc = None THEN [w EXCEPT !.pc = "return"] ELSE Handle(w)

\* One step of the dialogue with the environment's answer a to it.
\*   connect: outside the inner try; a failure goes straight to the handlers.
\*   ehlo, mail, rcpt: inside the inner try; a failure runs the finally
\*     clause (quit) and then reaches the handlers.
\*   quit: the finally clause; its own failure is swallowed (except: pass).
ProbeStep(p, a) ==
  LET q == [p EXCEPT !.sent = Append(p.sent, p.pc)]
  IN  CASE p.pc = "connect" ->
             IF a.k = "ok" THEN [q EXCEPT !.pc = "ehlo"]
             ELSE Handle([q EXCEPT !.exc = a.exc])
        [] p.pc = "ehlo" ->
             IF a.k = "ok" THEN [q EXCEPT !.pc = "mail"]
             ELSE [q EXCEPT !.pc = "quit", !.exc = a.exc]
        [] p.pc = "mail" ->
             IF a.k = "ok" THEN [q EXCEPT !.pc = "rcpt"]
             ELSE [q EXCEPT !.pc = "quit", !.exc = a.exc]
        [] p.pc = "rcpt" ->
             IF a.k = "code"
               THEN [q EXCEPT !.pc = "quit", !.res = Classify(p.res, a.code)]
               ELSE [q EXCEPT !.pc = "quit", !.exc = a.exc]
        [] p.pc = "quit" ->
             LET w == [q EXCEPT !.swallowed = (a.k = "exc")]
             IN  IF w.exc = None THEN [w EXCEPT !.pc = "return"] ELSE Handle(w)

\* A whole dialogue: ev gives the environment's answer to each step, should
\* the dialogue reach it.  The probe it ends in has pc = "return" (and res is
\* the result returned) or pc = "raise".
RECURSIVE RunProbe(_, _)
RunProbe(p, ev) ==
  IF p.pc \in {"return", "raise"} THEN p ELSE RunProbe(ProbeStep(p, ev[p.pc]), ev)


StepSet == {Steps[k] : k \in 1..Len(Steps)}

\* A dialogue in which every step succeeds and RCPT TO is answered 250.
AllOk == [s \in StepSet |-> IF s = "rcpt" THEN Code(250) ELSE Ok]

\* The dialogues a probe of a concurrent batch can meet: RCPT TO answered
\* 250 or 450, or the connection timing out.
BatchEvents ==
  { AllOk, [AllOk EXCEPT !["rcpt"] = Code(450)],
    [AllOk EXCEPT !["connect"] = Raises("timeout")] }

\* The dialogues a probe of a single verification can meet: those in which
\* at most one step departs from AllOk, in every way it can.
SingleEvents == UNION {{[AllOk EXCEPT ![s] = a] : a \in Answers(s)} : s \in StepSet}

\* _generate_random_email(domain): an address no mailbox has.  (The random
\* local part is one fixed name no input uses.)
RandomEmail(d) == <<"~", "@">> \o d

\* The result of _smtp_verify for every address the engine probes and every
\* dialogue, computed once.
ProbeResults ==
  [ e \in Addresses \cup {RandomEmail(d) : d \in Domains},
    ev \in SingleEvents \cup BatchEvents |-> RunProbe(ProbeStart(e), ev) ]

\* AsyncEmailVerifier._smtp_verify as its caller sees it.
SmtpVerify(email, ev) == ProbeResults[email, ev]

\* The dialogue got as far as RCPT TO and was answered with one of codes.
Answered(ev, codes) ==
  /\ ev["connect"] = Ok /\ ev["ehlo"] = Ok /\ ev["mail"] = Ok
  /\ ev["rcpt"].k = "code" /\ ev["rcpt"].code \in codes

\* --------------------------------------------------------------- the engine

VARIABLES
  max_concurrent,        \* AsyncEmailVerifier.max_concurrent
  max_per_domain,        \* AsyncEmailVerifier.max_per_domain
  greylist_max_retries,  \* AsyncEmailVerifier.greylist_max_retries
  mx_cache,              \* MXResolver._cache: domain -> <<>> | <<hosts>>
  catch_all_cache,       \* _catch_all_cache: domain -> <<>> | <<bool>>
  global_semaphore,      \* _global_semaphore: <<>> (None) | <<free slots>>
  domain_semaphores,     \* _domain_semaphores: domain -> free slots
  phase,                 \* verify_batch: "idle", "running", "returned", "raised"
  emails,                \* the argument of verify_batch
  pc,                    \* where each task _verify_with_semaphores(email) is
  attempt,               \* the loop variable of _verify_with_greylist_retry
  ret,                   \* the result each finished task returned
  completed,             \* the tasks in the order as_completed yields them
  output,                \* what verify_batch returned
  calls,                 \* history: verify_batch calls made on the engine
  synth,                 \* history: synthetic probes issued per domain
  hist,                  \* history: the dialogues of each task's own probes
  everCatchAll,          \* history: the domain was once recorded catch-all
  afterCatchAll,         \* history: the task began verify_single after that
  dnsOk,                 \* history: some DNS query was answered
  connOk,                \* history: some connection attempt succeeded
  resolved,              \* history: what resolve returned to each task
  callback,              \* verify_batch was given a progress_callback
  progress,              \* history: the arguments of the callback's calls
  probe,                 \* one probe taken by itself, step by step
  resolver,              \* one MXResolver taken by itself, with its clock
  synthAnswer,           \* history: how each task's synthetic probe ended
  everNotCatchAll,       \* history: the domain was once recorded not catch-all
  overlap                \* verify_batch calls overlapping on one engine

vars ==
  << max_concurrent, max_per_domain, greylist_max_retries, mx_cache,
     catch_all_cache, global_semaphore, domain_semaphores, phase, emails, pc,
     attempt, ret, completed, output, calls, synth, hist, everCatchAll,
     afterCatchAll, dnsOk, connOk, resolved, callback, progress, probe,
     resolver,
                  synthAnswer, everNotCatchAll, overlap >>

config == << max_concurrent, max_per_domain, greylist_max_retries >>

Tasks == 1..Len(emails)

DomainOf(i) == GetDomain(emails[i])

\* str.rstrip('.'): the name without the dots it ends in.
RECURSIVE Rstrip(_)
Rstrip(h) ==
  IF h # <<>> /\ h[Len(h)] = "." THEN Rstrip(SubSeq(h, 1, Len(h) - 1)) ELSE h

\* sorted(mx_records, key=lambda x: x.priority): a stable sort, records of
\* equal priority staying in the order of the answer.
RECURSIVE SortedByPriority(_)
SortedByPriority(records) ==
  IF records = <<>> THEN <<>>
  ELSE LET n == Len(records)
           r == records[n]
           front == SortedByPriority(SubSeq(records, 1, n - 1))
           keep == Cardinality({k \in 1..(n - 1) : front[k].priority <= r.priority})
       IN  SubSeq(front, 1, keep) \o << r >> \o SubSeq(front, keep + 1, n - 1)

\* Hosts taking the names in the order of the answer.
HostsAsAnswered(records) == [k \in 1..Len(records) |-> Rstrip(records[k].host)]

\* The host list resolve makes of a DNS answer: sorted by priority, the
\* trailing dots stripped.
Hosts(records) ==
  LET sorted_mx == SortedByPriority(records)
  IN  [k \in 1..Len(records) |-> Rstrip(sorted_mx[k].host)]

\* The DNS answer a domain's query gets in the engine: one MX record.
DnsAnswer(d) == << [priority |-> 10, host |-> <<"m", "x">> \o d \o <<".">>] >>

\* What resolve makes of each domain's answer, computed once.
MxAnswers == [d \in Domains |-> Hosts(DnsAnswer(d))]

\* The list of MX hosts a successful DNS query yields.
MxAnswer(d) == MxAnswers[d]

\* What a DNS query can end with: an answer, aiodns.error.DNSError, or any
\* other exception.
DnsOutcomes == {"answer", "dns_error", "exception"}

\* MXResolver.__init__: an empty cache.  now is the clock time.time()
\* reads, pending the resolve calls whose DNS query is in flight, calls the
\* number of resolve calls made, issued the times at which each domain's
\* queries were issued and last the latest thing that happened.
NoEvent ==
  [ k |-> "none", d |-> <<>>, at |-> 0, o |-> None, ret |-> <<>>,
    stale |-> FALSE, answer |-> <<>> ]

\* MXResolver.__init__(ttl_seconds): an empty cache.  cache maps a domain
\* to <<>> (no entry) or << [records, cached_at] >>; now is the clock that
\* time.time() reads; pending holds the resolve calls whose DNS query is in
\* flight.  The rest is history: calls counts the resolve calls, issued
\* lists the times each domain's queries were issued at, returned keeps the
\* list of the latest query of each domain that ended with hosts or with a
\* DNSError, and last is the latest call or return (answer being the MX
\* records the query was answered with).
NewResolver(ttl_seconds) ==
  [ ttl |-> ttl_seconds, now |-> 0, cache |-> [d \in Domains |-> <<>>],
    pending |-> {}, calls |-> 0, issued |-> [d \in Domains |-> <<>>],
    returned |-> [d \in Domains |-> <<>>], last |-> NoEvent ]

\* The engine before any overlapping call: _global_semaphore is None (sem 0),
\* no semaphore and no task has been created, no slot is taken.  sems lists
\* the slots taken of each global semaphore created so far, sem is the one
\* self._global_semaphore names, dom the slots taken of each domain's
\* semaphore; a task records the call that created it, its address, where it
\* is, and the global semaphore it entered or waits for.  returned is the
\* set of calls that have returned.
NoCalls ==
  [ calls |-> 0, sems |-> <<>>, sem |-> 0, dom |-> [d \in Domains |-> 0],
    tasks |-> <<>>, returned |-> {} ]

\* AsyncEmailVerifier.__init__ (and MXResolver.__init__) with the limits
\* and the resolver's TTL drawn from the given sets: empty caches, no
\* global semaphore yet, every per-domain semaphore (made on first use by
\* the defaultdict) with max_per_domain free slots.
InitEngine(mcs, mpds, rs, ttls) ==
  /\ max_concurrent \in mcs
  /\ max_per_domain \in mpds
  /\ greylist_max_retries \in rs
  /\ mx_cache = [d \in Domains |-> <<>>]
  /\ catch_all_cache = [d \in Domains |-> <<>>]
  /\ global_semaphore = <<>>
  /\ domain_semaphores = [d \in Domains |-> max_per_domain]
  /\ phase = "idle"
  /\ emails = <<>>
  /\ pc = <<>>
  /\ attempt = <<>>
  /\ ret = <<>>
  /\ completed = <<>>
  /\ output = <<>>
  /\ calls = 0
  /\ synth = [d \in Domains |-> 0]
  /\ hist = <<>>
  /\ everCatchAll = [d \in Domains |-> FALSE]
  /\ afterCatchAll = <<>>
  /\ dnsOk = FALSE
  /\ connOk = FALSE
  /\ resolved = <<>>
  /\ callback = FALSE
  /\ progress = <<>>
  /\ probe = [pc |-> "idle"]
  /\ resolver \in {NewResolver(t) : t \in ttls}
  /\ synthAnswer = <<>>
  /\ everNotCatchAll = [d \in Domains |-> FALSE]
  /\ overlap = NoCalls

\* How a stretch of a task ends: the task returns r, an exception leaves it,
\* or it suspends at k.
Finish(r) == [k |-> "done", r |-> r]
Raise == [k |-> "raised"]
Suspend(k) == [k |-> k]

\* AfterCatchAll with the catch-all result left at the default confidence.
AfterCatchAllDefaults(email, is_catch_all) ==
  IF is_catch_all
    THEN Finish([NewResult(email) EXCEPT !.valid = None, !.catch_all = TRUE])
    ELSE Suspend("probe")

\* verify_single once the catch-all verdict is known: the catch-all result,
\* or the first probe of _verify_with_greylist_retry.
AfterCatchAll(email, is_catch_all) ==
  IF is_catch_all
    THEN Finish([NewResult(email) EXCEPT !.valid = None, !.catch_all = TRUE,
                                         !.confidence = "low"])
    ELSE Suspend("probe")

\* AfterResolve without its "if not mx_records" check.
AfterResolveNoMxCheck(email, mx_records, ca) ==
  LET d == GetDomain(email)
  IN  IF ca[d] # <<>> THEN AfterCatchAll(email, ca[d][1])
      ELSE Suspend("ca_probe")

\* verify_single once resolve has returned mx_records, up to its next
\* suspension.  is_catch_all returns the cached verdict or, with none
\* cached, resolves the domain again and issues the synthetic probe: resolve
\* has just returned a non-empty list in this same stretch, from the cache
\* or after writing it to the cache, so the second resolve is a cache hit.
AfterResolve(email, mx_records, ca) ==
  LET d == GetDomain(email)
  IN  IF mx_records = <<>>
        THEN Finish([NewResult(email) EXCEPT !.valid = "False",
                                             !.error = "no_mx_records"])
      ELSE IF ca[d] # <<>> THEN AfterCatchAll(email, ca[d][1])
      ELSE Suspend("ca_probe")

\* VerifySingle without its "if not domain" check.
VerifySingleNoFormatCheck(email, mx, ca) ==
  LET d == GetDomain(email)
  IN  IF mx[d] = <<>> THEN Suspend("dns") ELSE AfterResolve(email, mx[d][1], ca)

\* verify_single from its call to its first suspension.
VerifySingle(email, mx, ca) ==
  LET d == GetDomain(email)
  IN  IF d = <<>>
        THEN Finish([NewResult(email) EXCEPT !.valid = "False",
                                             !.error = "invalid_format"])
      ELSE IF mx[d] = <<>> THEN Suspend("dns")
      ELSE AfterResolve(email, mx[d][1], ca)

\* AfterProbe retrying every indeterminate result, greylisted or not.
AfterProbeRetryUnknown(p, att, max_retries) ==
  LET r == [p.res EXCEPT !.attempts = att + 1]
  IN  IF p.pc = "raise" THEN Raise
      ELSE IF r.valid # None THEN Finish(r)
      ELSE IF att < max_retries THEN Suspend("sleep")
      ELSE Finish([r EXCEPT !.error = "greylist_timeout"])

\* AfterProbe looping over range(greylist_max_retries).
AfterProbeOffByOne(p, att, max_retries) ==
  LET r == [p.res EXCEPT !.attempts = att + 1]
  IN  IF p.pc = "raise" THEN Raise
      ELSE IF ~r.greylist THEN Finish(r)
      ELSE IF att + 1 < max_retries THEN Suspend("sleep")
      ELSE Finish([r EXCEPT !.error = "greylist_timeout"])

\* AfterProbe counting the attempts from zero.
AfterProbeZeroBased(p, att, max_retries) ==
  LET r == [p.res EXCEPT !.attempts = att]
  IN  IF p.pc = "raise" THEN Raise
      ELSE IF ~r.greylist THEN Finish(r)
      ELSE IF att < max_retries THEN Suspend("sleep")
      ELSE Finish([r EXCEPT !.error = "greylist_timeout"])

\* AfterProbe returning the last greylisted result as the probe left it.
AfterProbeNoTimeoutError(p, att, max_retries) ==
  LET r == [p.res EXCEPT !.attempts = att + 1]
  IN  IF p.pc = "raise" THEN Raise
      ELSE IF ~r.greylist THEN Finish(r)
      ELSE IF att < max_retries THEN Suspend("sleep")
      ELSE Finish(r)

\* _verify_with_greylist_retry after the probe of attempt att ended as p.
AfterProbe(p, att, max_retries) ==
  LET r == [p.res EXCEPT !.attempts = att + 1]
  IN  IF p.pc = "raise" THEN Raise
      ELSE IF ~r.greylist THEN Finish(r)
      ELSE IF att < max_retries THEN Suspend("sleep")
      ELSE Finish([r EXCEPT !.error = "greylist_timeout"])

\* GlobalFree were the global semaphore never waited for.
GlobalFreeAlways == TRUE

\* "async with self._global_semaphore" can be entered at once.
GlobalFree == global_semaphore[1] > 0

\* DomainFree were the per-domain semaphore never waited for.
DomainFreeAlways(d) == TRUE

\* "async with self._domain_semaphores[domain]" can be entered at once.
DomainFree(d) == domain_semaphores[d] > 0

\* Notify calling the callback before completed is incremented.
NotifyBefore(called, cb, k, total) ==
  IF cb THEN Append(called, << k - 1, total >>) ELSE called

\* "completed += 1; if progress_callback: progress_callback(completed,
\* len(emails))", k being the incremented count: the calls made so far.
Notify(called, cb, k, total) ==
  IF cb THEN Append(called, << k, total >>) ELSE called

\* Releases were a slot never given back.
ReleasesNever(oc) == 0

\* Releases were the slots given back for the backoff delay too.
ReleasesOnSleep(oc) == IF oc.k \in {"done", "raised", "sleep"} THEN 1 ELSE 0

\* The slots of each semaphore a task gives back when its stretch ends with
\* oc: the two "async with" blocks are left only when verify_single returns
\* or raises.
Releases(oc) == IF oc.k \in {"done", "raised"} THEN 1 ELSE 0

\* Task i ends a stretch with oc, having taken gAcq slots of the global
\* semaphore and dAcq of its domain's in this stretch.  A task that ends
\* leaves both "async with" blocks, which releases its two slots, and
\* as_completed yields it next: its result is appended to results, or its
\* exception is raised by "await coro" and leaves verify_batch.  With a
\* result the loop body goes on to count it and to call the callback.
Continue(i, oc, gAcq, dAcq) ==
  LET d == DomainOf(i)
      rel == Releases(oc)
  IN  /\ pc' = [pc EXCEPT ![i] = oc.k]
      /\ global_semaphore' = << global_semaphore[1] - gAcq + rel >>
      /\ domain_semaphores' =
           [domain_semaphores EXCEPT ![d] = domain_semaphores[d] - dAcq + rel]
      /\ ret' = IF oc.k = "done" THEN [ret EXCEPT ![i] = oc.r] ELSE ret
      /\ completed' = IF oc.k = "done" /\ phase = "running"
                        THEN Append(completed, i) ELSE completed
      /\ phase' = IF oc.k = "raised" /\ phase = "running" THEN "raised" ELSE phase
      /\ synth' = IF oc.k = "ca_probe" THEN [synth EXCEPT ![d] = synth[d] + 1]
                  ELSE synth
      /\ progress' = IF oc.k = "done" /\ phase = "running"
                       THEN Notify(progress, callback, Len(completed) + 1,
                                   Len(emails))
                       ELSE progress

\* verify_batch(es), up to the first suspension: an empty list is returned at
\* once; otherwise a fresh global semaphore and one coroutine per address.
VerifyBatch(es, cb) ==
  /\ phase \in {"idle", "returned"}
  /\ calls < MaxCalls
  /\ calls' = calls + 1
  /\ emails' = es
  /\ IF es = <<>>
       THEN /\ phase' = "returned"
            /\ UNCHANGED global_semaphore
       ELSE /\ phase' = "running"
            /\ global_semaphore' = << max_concurrent >>
  /\ pc' = [i \in 1..Len(es) |-> "new"]
  /\ attempt' = [i \in 1..Len(es) |-> 0]
  /\ ret' = [i \in 1..Len(es) |-> NewResult(es[i])]
  /\ hist' = [i \in 1..Len(es) |-> <<>>]
  /\ afterCatchAll' = [i \in 1..Len(es) |-> FALSE]
  /\ resolved' = [i \in 1..Len(es) |-> <<>>]
  /\ completed' = <<>>
  /\ output' = <<>>
  /\ callback' = cb
  /\ progress' = <<>>
  /\ synthAnswer' = [i \in 1..Len(es) |-> "none"]
  /\ UNCHANGED << config, mx_cache, catch_all_cache, domain_semaphores,
                  synth, everCatchAll, dnsOk, connOk, probe, resolver,
                  everNotCatchAll, overlap >>

\* What resolve returns at once, without a query: nothing for an address
\* with no domain (resolve is not called), else the cached list if any.
Cached(mx, d) == IF d = <<>> THEN <<>> ELSE mx[d]

\* Task i enters "async with self._global_semaphore": it needs a free slot.
\* With a free slot of its domain's semaphore too it goes on into
\* verify_single; otherwise it waits for one, holding the global slot.
Run(i) ==
  /\ pc[i] = "new"
  /\ GlobalFree
  /\ IF DomainFree(DomainOf(i))
       THEN /\ Continue(i, VerifySingle(emails[i], mx_cache, catch_all_cache), 1, 1)
            /\ afterCatchAll' = [afterCatchAll EXCEPT ![i] = everCatchAll[DomainOf(i)]]
            /\ resolved' = [resolved EXCEPT ![i] = Cached(mx_cache, DomainOf(i))]
       ELSE /\ Continue(i, Suspend("wait_domain"), 1, 0)
            /\ UNCHANGED << afterCatchAll, resolved >>
  /\ UNCHANGED << config, mx_cache, catch_all_cache, emails, attempt, output,
                  calls, hist, everCatchAll, dnsOk, connOk, callback, probe,
                  resolver,
                  synthAnswer, everNotCatchAll, overlap >>

\* Task i, waiting in "async with self._domain_semaphores[domain]", gets a
\* slot and goes on into verify_single.
AcquireDomain(i) ==
  /\ pc[i] = "wait_domain"
  /\ DomainFree(DomainOf(i))
  /\ Continue(i, VerifySingle(emails[i], mx_cache, catch_all_cache), 0, 1)
  /\ afterCatchAll' = [afterCatchAll EXCEPT ![i] = everCatchAll[DomainOf(i)]]
  /\ resolved' = [resolved EXCEPT ![i] = Cached(mx_cache, DomainOf(i))]
  /\ UNCHANGED << config, mx_cache, catch_all_cache, emails, attempt, output,
                  calls, hist, everCatchAll, dnsOk, connOk, callback, probe,
                  resolver,
                  synthAnswer, everNotCatchAll, overlap >>

\* Resolve without its last clause, "except Exception".
ResolveNoFallback(mx, d, o) ==
  IF o = "answer"
    THEN [k |-> "return", hosts |-> MxAnswer(d),
          cache |-> [mx EXCEPT ![d] = << MxAnswer(d) >>]]
  ELSE IF o = "dns_error"
    THEN [k |-> "return", hosts |-> <<>>, cache |-> [mx EXCEPT ![d] = << <<>> >>]]
  ELSE [k |-> "raise", hosts |-> <<>>, cache |-> mx]

\* MXResolver.resolve after its DNS query ended with o: an answer is cached
\* and returned, a DNSError caches and returns the empty list, any other
\* exception returns the empty list and caches nothing.  k = "raise" would be
\* an exception that leaves resolve.
Resolve(mx, d, o) ==
  IF o = "answer"
    THEN [k |-> "return", hosts |-> MxAnswer(d),
          cache |-> [mx EXCEPT ![d] = << MxAnswer(d) >>]]
  ELSE IF o = "dns_error"
    THEN [k |-> "return", hosts |-> <<>>, cache |-> [mx EXCEPT ![d] = << <<>> >>]]
  ELSE [k |-> "return", hosts |-> <<>>, cache |-> mx]

\* The DNS query of task i's resolve ends with o; verify_single goes on.
DnsReturn(i, o) ==
  LET rv == Resolve(mx_cache, DomainOf(i), o)
  IN  /\ pc[i] = "dns"
      /\ mx_cache' = rv.cache
      /\ dnsOk' = (dnsOk \/ o = "answer")
      /\ Continue(i, IF rv.k = "raise" THEN Raise
                     ELSE AfterResolve(emails[i], rv.hosts, catch_all_cache), 0, 0)
      /\ resolved' = IF rv.k = "raise" THEN resolved
                       ELSE [resolved EXCEPT ![i] = << rv.hosts >>]
      /\ UNCHANGED << config, catch_all_cache, emails, attempt, output, calls,
                      hist, everCatchAll, afterCatchAll, connOk, callback,
                      probe, resolver,
                  synthAnswer, everNotCatchAll, overlap >>

\* is_catch_all after its synthetic probe returned result r: the verdict.
IsCatchAll(r) == r.valid = "True"

\* The synthetic probe of task i's is_catch_all ends, its dialogue having
\* been ev: the verdict is cached and verify_single goes on.
CatchAllProbeReturn(i, ev) ==
  LET d == DomainOf(i)
      p == SmtpVerify(RandomEmail(d), ev)
      v == IsCatchAll(p.res)
  IN  /\ pc[i] = "ca_probe"
      /\ connOk' = (connOk \/ ev["connect"] = Ok)
      /\ IF p.pc = "raise"
           THEN /\ Continue(i, Raise, 0, 0)
                /\ UNCHANGED << catch_all_cache, everCatchAll, everNotCatchAll >>
           ELSE /\ catch_all_cache' = [catch_all_cache EXCEPT ![d] = << v >>]
                /\ everCatchAll' = [everCatchAll EXCEPT ![d] = everCatchAll[d] \/ v]
                /\ everNotCatchAll' =
                     [everNotCatchAll EXCEPT ![d] = everNotCatchAll[d] \/ ~v]
                /\ Continue(i, AfterCatchAll(emails[i], v), 0, 0)
      /\ synthAnswer' =
           [synthAnswer EXCEPT ![i] = IF Answered(ev, {250}) THEN "accepted"
                                      ELSE "other"]
      /\ UNCHANGED << config, mx_cache, emails, attempt, output, calls, hist,
                      afterCatchAll, dnsOk, resolved, callback, probe, resolver,
                      overlap >>

\* A probe of task i's own address ends, its dialogue having been ev.
ProbeReturn(i, ev) ==
  /\ pc[i] = "probe"
  /\ hist' = [hist EXCEPT ![i] = Append(hist[i], ev)]
  /\ connOk' = (connOk \/ ev["connect"] = Ok)
  /\ Continue(i, AfterProbe(SmtpVerify(emails[i], ev), attempt[i],
                            greylist_max_retries), 0, 0)
  /\ UNCHANGED << config, mx_cache, catch_all_cache, emails, attempt, output,
                  calls, everCatchAll, afterCatchAll, dnsOk, resolved, callback,
                  probe, resolver,
                  synthAnswer, everNotCatchAll, overlap >>

\* asyncio.sleep(greylist_retry_delay) is over: the next attempt's probe.
Wake(i) ==
  /\ pc[i] = "sleep"
  /\ attempt' = [attempt EXCEPT ![i] = attempt[i] + 1]
  /\ Continue(i, Suspend("probe"), 0, 0)
  /\ UNCHANGED << config, mx_cache, catch_all_cache, emails, output, calls,
                  hist, everCatchAll, afterCatchAll, dnsOk, connOk, resolved,
                  callback, probe, resolver,
                  synthAnswer, everNotCatchAll, overlap >>

\* results, as the as_completed loop of verify_batch has appended them.
Results == [k \in 1..Len(completed) |-> ret[completed[k]]]

\* EmailToResult keeping the first result with that address.
EmailToResultFirst(results, email) ==
  LET ks == {k \in 1..Len(results) : results[k].email = email}
  IN  results[CHOOSE k \in ks : \A j \in ks : k <= j]

\* {r.email: r for r in results}[email]: the last result with that address.
EmailToResult(results, email) ==
  LET ks == {k \in 1..Len(results) : results[k].email = email}
  IN  results[CHOOSE k \in ks : \A j \in ks : j <= k]

\* Reorder leaving the results in the order of completion.
ReorderNot(results, es) == results

\* The list verify_batch returns.
Reorder(results, es) == [i \in 1..Len(es) |-> EmailToResult(results, es[i])]

\* Every task has been yielded by as_completed: verify_batch reorders the
\* results and returns.
Return ==
  /\ phase = "running"
  /\ Len(completed) = Len(emails)
  /\ output' = Reorder(Results, emails)
  /\ phase' = "returned"
  /\ UNCHANGED << config, mx_cache, catch_all_cache, global_semaphore,
                  domain_semaphores, emails, pc, attempt, ret, completed, calls,
                  synth, hist, everCatchAll, afterCatchAll, dnsOk, connOk,
                  resolved, callback, progress, probe, resolver,
                  synthAnswer, everNotCatchAll, overlap >>

\* The lists of at most n of the given addresses.
RECURSIVE Lists(_, _)
Lists(n, addrs) ==
  IF n = 0 THEN { <<>> }
  ELSE Lists(n - 1, addrs) \cup
       {Append(l, e) : l \in {m \in Lists(n - 1, addrs) : Len(m) = n - 1}, e \in addrs}

\* One verify_batch call on a fresh engine, its tasks running concurrently.
Init ==
  InitEngine(1..MaxConcurrentCap, 1..MaxPerDomainCap, {MaxRetriesCap}, {MaxTtl})

Next ==
  \/ \E es \in Lists(MaxLen, BatchAddresses) : calls = 0 /\ VerifyBatch(es, TRUE)
  \/ \E i \in Tasks : Run(i)
  \/ \E i \in Tasks : AcquireDomain(i)
  \/ \E i \in Tasks, o \in DnsOutcomes : DnsReturn(i, o)
  \/ \E i \in Tasks, ev \in BatchEvents : CatchAllProbeReturn(i, ev)
  \/ \E i \in Tasks, ev \in BatchEvents : ProbeReturn(i, ev)
  \/ \E i \in Tasks : Wake(i)
  \/ Return

Spec == Init /\ [][Next]_vars

\* The same call under the event loop's scheduling: a coroutine that can run
\* is run, and every DNS query, probe and delay comes to an end.
LiveSpec == Init /\ [][Next]_vars /\ WF_vars(Next)

\* Verifications of one address at a time, one after the other on the same
\* engine, each probe meeting any of SingleEvents.
InitSingle ==
  InitEngine({MaxConcurrentCap}, {MaxPerDomainCap}, 0..MaxRetriesCap, {MaxTtl})

NextSingle ==
  \/ \E e \in Addresses, cb \in BOOLEAN : VerifyBatch(<< e >>, cb)
  \/ \E i \in Tasks : Run(i)
  \/ \E i \in Tasks, o \in DnsOutcomes : DnsReturn(i, o)
  \/ \E i \in Tasks, ev \in SingleEvents : CatchAllProbeReturn(i, ev)
  \/ \E i \in Tasks, ev \in SingleEvents : ProbeReturn(i, ev)
  \/ \E i \in Tasks : Wake(i)
  \/ Return

SingleSpec == InitSingle /\ [][NextSingle]_vars

\* ------------------------------------------------- one probe, step by step

\* The addresses probed: the inputs that have a domain, and the synthetic
\* address of each domain.
Probed ==
  {e \in Addresses : GetDomain(e) # <<>>}
    \cup {RandomEmail(d) : d \in Domains \ { <<>> }}

\* _smtp_verify(e, mx_host) is called.
ProbeBegin(e) ==
  /\ probe.pc \in {"idle", "return", "raise"}
  /\ probe' = ProbeStart(e)
  /\ UNCHANGED << config, mx_cache, catch_all_cache, global_semaphore,
                  domain_semaphores, phase, emails, pc, attempt, ret, completed,
                  output, calls, synth, hist, everCatchAll, afterCatchAll,
                  dnsOk, connOk, resolved, callback, progress, resolver,
                  synthAnswer, everNotCatchAll, overlap >>

\* The step the probe is at is issued and the environment answers a.
ProbeAnswer(a) ==
  /\ probe.pc \in StepSet
  /\ a \in Answers(probe.pc)
  /\ probe' = ProbeStep(probe, a)
  /\ UNCHANGED << config, mx_cache, catch_all_cache, global_semaphore,
                  domain_semaphores, phase, emails, pc, attempt, ret, completed,
                  output, calls, synth, hist, everCatchAll, afterCatchAll,
                  dnsOk, connOk, resolved, callback, progress, resolver,
                  synthAnswer, everNotCatchAll, overlap >>

InitProbe ==
  InitEngine({MaxConcurrentCap}, {MaxPerDomainCap}, {MaxRetriesCap}, {MaxTtl})

NextProbe ==
  \/ \E e \in Probed : ProbeBegin(e)
  \/ \E a \in Answers("rcpt") \cup Answers("quit") : ProbeAnswer(a)

ProbeSpec == InitProbe /\ [][NextProbe]_vars

\* ------------------------------------------------------- the statistics

\* "if r.error": the error is neither None nor the empty string.
Truthy(error) == error \notin {None, ""}

\* The three conditions verify_emails counts catch_all, greylist and errors
\* by.
InCatchAll(r) == r.catch_all
InGreylist(r) == r.greylist /\ ~r.catch_all
InErrors(r) == Truthy(r.error) /\ ~r.catch_all

\* sum(1 for r in results if ...), the condition given as the set of the
\* positions that meet it.
CountOf(positions) == Cardinality(positions)

\* The VerificationStats verify_emails builds from the list verify_batch
\* returned (the duration left out).
Stats(results) ==
  LET P == 1..Len(results)
  IN  [ total |-> Len(results),
        valid |-> CountOf({k \in P : results[k].valid = "True"}),
        invalid |-> CountOf({k \in P : results[k].valid = "False"}),
        catch_all |-> CountOf({k \in P : InCatchAll(results[k])}),
        greylist |-> CountOf({k \in P : InGreylist(results[k])}),
        errors |-> CountOf({k \in P : InErrors(results[k])}) ]

\* --------------------------------------------- the MX resolver, by itself

\* "if domain in self._cache: ... if now - cached_at < self.ttl": the
\* cached records as << records >>, or <<>> when resolve goes on to query.
CacheLookup(cache, d, now, ttl) ==
  IF cache[d] # <<>> /\ now - cache[d][1].cached_at < ttl
    THEN << cache[d][1].records >>
    ELSE <<>>

\* resolve(d), called at time now, after its DNS query ended with o: what
\* Resolve returns and caches, the entry stamped with the time of the call.
ResolveAt(cache, d, now, o) ==
  LET rv == Resolve([e \in Domains |-> <<>>], d, o)
  IN  [ hosts |-> rv.hosts,
        cache |-> IF rv.cache[d] = <<>> THEN cache
                  ELSE [cache EXCEPT ![d] =
                          << [records |-> rv.cache[d][1], cached_at |-> now] >>] ]

\* The variables of the engine and of the probe, which the resolver taken
\* by itself leaves alone.
engine ==
  << config, mx_cache, catch_all_cache, global_semaphore, domain_semaphores,
     phase, emails, pc, attempt, ret, completed, output, calls, synth, hist,
     everCatchAll, afterCatchAll, dnsOk, connOk, resolved, callback, progress,
     probe, synthAnswer, everNotCatchAll, overlap >>

\* time.time() advances.
Tick ==
  /\ resolver.now < MaxTime
  /\ resolver' = [resolver EXCEPT !.now = resolver.now + 1]
  /\ UNCHANGED engine

\* resolve(d) is called: it returns the cached records at once, or issues
\* its DNS query and waits for it.
ResolveCall(d) ==
  LET r == resolver
      hit == CacheLookup(r.cache, d, r.now, r.ttl)
      ev == [NoEvent EXCEPT !.d = d, !.at = r.now]
  IN  /\ r.calls < MaxResolves
      /\ resolver' =
           IF hit # <<>>
             THEN [r EXCEPT !.calls = r.calls + 1,
                            !.last = [ev EXCEPT !.k = "hit", !.ret = hit[1]]]
             ELSE [r EXCEPT !.calls = r.calls + 1,
                            !.pending = r.pending \cup
                               { [id |-> r.calls + 1, d |-> d, at |-> r.now,
                                  stale |-> r.cache[d] # <<>>] },
                            !.issued[d] = Append(r.issued[d], r.now),
                            !.last = [ev EXCEPT !.k = "query",
                                                !.stale = r.cache[d] # <<>>]]
      /\ UNCHANGED engine

\* The DNS query of the pending call c ends with o and resolve returns.
QueryReturn(c, o) ==
  LET r == resolver
      rv == ResolveAt(r.cache, c.d, c.at, o)
  IN  /\ c \in r.pending
      /\ resolver' =
           [r EXCEPT !.cache = rv.cache,
                     !.pending = r.pending \ {c},
                     !.returned[c.d] = IF o = "exception" THEN r.returned[c.d]
                                       ELSE << rv.hosts >>,
                     !.last = [k |-> "return", d |-> c.d, at |-> c.at, o |-> o,
                               ret |-> rv.hosts, stale |-> c.stale,
                               answer |-> IF o = "answer" THEN DnsAnswer(c.d)
                                          ELSE <<>>]]
      /\ UNCHANGED engine

InitResolver ==
  InitEngine({MaxConcurrentCap}, {MaxPerDomainCap}, {MaxRetriesCap}, 1..MaxTtl)

NextResolver ==
  \/ Tick
  \/ \E d \in Domains \ { <<>> } : ResolveCall(d)
  \/ \E c \in resolver.pending, o \in DnsOutcomes : QueryReturn(c, o)

ResolverSpec == InitResolver /\ [][NextResolver]_vars

\* ------------------------------------------- the resolver's DNS answers

\* The MX records an answer can hold: two priorities, names with and
\* without a trailing dot and with a dot inside.
AnswerRecords ==
  [ priority : {5, 10},
    host : { <<"m", ".">>, <<"n">>, <<"m", ".", "n", ".">> } ]

\* The answers a DNS query can get: at most MaxRecords records in any order.
DnsAnswers == Lists(MaxRecords, AnswerRecords)

\* The DNS query of the pending call c is answered with records: resolve
\* sorts them, strips the names, caches the list and returns it.
QueryAnswered(c, records) ==
  LET r == resolver
      hosts == Hosts(records)
  IN  /\ c \in r.pending
      /\ resolver' =
           [r EXCEPT !.cache[c.d] = << [records |-> hosts, cached_at |-> c.at] >>,
                     !.pending = r.pending \ {c},
                     !.returned[c.d] = << hosts >>,
                     !.last = [k |-> "return", d |-> c.d, at |-> c.at,
                               o |-> "answer", ret |-> hosts, stale |-> c.stale,
                               answer |-> records]]
      /\ UNCHANGED engine

InitAnswer ==
  InitEngine({MaxConcurrentCap}, {MaxPerDomainCap}, {MaxRetriesCap}, 1..MaxTtl)

NextAnswer ==
  \/ resolver.pending = {} /\ ResolveCall(<<"x">>)
  \/ \E c \in resolver.pending, records \in DnsAnswers : QueryAnswered(c, records)

AnswerSpec == InitAnswer /\ [][NextAnswer]_vars

\* ------------------------------------- overlapping verify_batch calls

\* The variables the overlapping calls, taken by themselves, leave alone.
rest ==
  << config, mx_cache, catch_all_cache, global_semaphore, domain_semaphores,
     phase, emails, pc, attempt, ret, completed, output, calls, synth, hist,
     everCatchAll, afterCatchAll, dnsOk, connOk, resolved, callback, progress,
     probe, resolver, synthAnswer, everNotCatchAll >>

\* The addresses of the overlapping calls: two domains.
OverlapAddresses == { <<"a", "@", "x">>, <<"a", "@", "y">> }

OverlapTasks == 1..Len(overlap.tasks)

\* verify_batch(es) is called while earlier calls may still be running: up to
\* its first suspension it replaces self._global_semaphore by a new
\* Semaphore(max_concurrent) and creates one coroutine per address.
OverlapCall(es) ==
  LET o == overlap
      c == o.calls + 1
  IN  /\ o.calls < MaxOverlap
      /\ es # <<>>
      /\ overlap' =
           [o EXCEPT !.calls = c,
                     !.sems = Append(o.sems, 0),
                     !.sem = Len(o.sems) + 1,
                     !.tasks = o.tasks \o
                       [k \in 1..Len(es) |->
                          [call |-> c, email |-> es[k], pc |-> "new", sem |-> 0]]]
      /\ UNCHANGED rest

\* Task t, holding a slot of global semaphore s, enters "async with
\* self._domain_semaphores[domain]": with a free slot it goes on into
\* verify_single, otherwise it waits.
OverlapEnterDomain(o, t, s) ==
  LET d == GetDomain(o.tasks[t].email)
  IN  IF o.dom[d] < max_per_domain
        THEN [o EXCEPT !.dom[d] = o.dom[d] + 1,
                       !.tasks[t].pc = "verifying", !.tasks[t].sem = s]
        ELSE [o EXCEPT !.tasks[t].pc = "wait_domain", !.tasks[t].sem = s]

\* Task t starts: "async with self._global_semaphore" reads the attribute
\* now, so the task enters or waits for the semaphore of the latest call.
OverlapStart(t) ==
  LET o == overlap
      s == o.sem
  IN  /\ o.tasks[t].pc = "new"
      /\ overlap' =
           IF o.sems[s] < max_concurrent
             THEN OverlapEnterDomain([o EXCEPT !.sems[s] = o.sems[s] + 1], t, s)
             ELSE [o EXCEPT !.tasks[t].pc = "wait_global", !.tasks[t].sem = s]
      /\ UNCHANGED rest

\* Task t, waiting for the global semaphore it read, gets a slot of it.
OverlapAcquire(t) ==
  LET o == overlap
      s == o.tasks[t].sem
  IN  /\ o.tasks[t].pc = "wait_global"
      /\ o.sems[s] < max_concurrent
      /\ overlap' = OverlapEnterDomain([o EXCEPT !.sems[s] = o.sems[s] + 1], t, s)
      /\ UNCHANGED rest

\* Task t, waiting for its domain's semaphore, gets a slot.
OverlapAcquireDomain(t) ==
  LET o == overlap
      d == GetDomain(o.tasks[t].email)
  IN  /\ o.tasks[t].pc = "wait_domain"
      /\ o.dom[d] < max_per_domain
      /\ overlap' = [o EXCEPT !.dom[d] = o.dom[d] + 1, !.tasks[t].pc = "verifying"]
      /\ UNCHANGED rest

\* verify_single of task t ends: the task leaves both "async with" blocks,
\* giving back the slots of the semaphores it entered.
OverlapExit(t) ==
  LET o == overlap
      s == o.tasks[t].sem
      d == GetDomain(o.tasks[t].email)
  IN  /\ o.tasks[t].pc = "verifying"
      /\ overlap' = [o EXCEPT !.sems[s] = o.sems[s] - 1,
                              !.dom[d] = o.dom[d] - 1,
                              !.tasks[t].pc = "done"]
      /\ UNCHANGED rest

\* Call c returns: as_completed has yielded all of its tasks.
OverlapReturn(c) ==
  LET o == overlap
  IN  /\ c \in 1..o.calls
      /\ c \notin o.returned
      /\ \A t \in OverlapTasks : o.tasks[t].call = c => o.tasks[t].pc = "done"
      /\ overlap' = [o EXCEPT !.returned = o.returned \cup {c}]
      /\ UNCHANGED rest

InitOverlap ==
  InitEngine(1..MaxConcurrentCap, 1..MaxPerDomainCap, {MaxRetriesCap}, {MaxTtl})

NextOverlap ==
  \/ \E es \in Lists(MaxOverlapLen, OverlapAddresses) : OverlapCall(es)
  \/ \E t \in OverlapTasks : OverlapStart(t)
  \/ \E t \in OverlapTasks : OverlapAcquire(t)
  \/ \E t \in OverlapTasks : OverlapAcquireDomain(t)
  \/ \E t \in OverlapTasks : OverlapExit(t)
  \/ \E c \in 1..MaxOverlap : OverlapReturn(c)

OverlapSpec == InitOverlap /\ [][NextOverlap]_vars

\* ------------------------------------------------------------------ claims

\* C1: verify_batch returns exactly len(addresses) results and the i-th
\* result's address is the i-th input address, in whatever order the
\* verifications completed.
C1_OutputMatchesInput ==
  phase = "returned" =>
    /\ Len(output) = Len(emails)
    /\ \A i \in 1..Len(emails) : output[i].email = emails[i]

\* A batch of distinct addresses has returned and the address first in the
\* input did not complete first.
C1_Witness ==
  /\ phase = "returned"
  /\ Len(emails) = 3
  /\ completed[1] # 1
  /\ \A i, j \in Tasks : i # j => emails[i] # emails[j]

\* The tasks with a probe (synthetic or of their own address) in flight
\* against domain d.
InFlight(d) == {i \in Tasks : pc[i] \in {"ca_probe", "probe"} /\ DomainOf(i) = d}

\* C2: at every instant the probes in flight against any one domain,
\* synthetic ones and those of real addresses together, number at most
\* max_per_domain.
C2_PerDomainLimit ==
  \A d \in Domains : Cardinality(InFlight(d)) <= max_per_domain

\* A domain has max_per_domain probes in flight and a further task of that
\* domain is waiting for a slot.
C2_Witness ==
  \E d \in Domains :
    /\ Cardinality(InFlight(d)) = max_per_domain
    /\ \E i \in Tasks : pc[i] = "wait_domain" /\ DomainOf(i) = d

\* The tasks whose address is being verified: resolving, checking catch-all,
\* probing or waiting out a greylist backoff.
BeingVerified == {i \in Tasks : pc[i] \in {"dns", "ca_probe", "probe", "sleep"}}

\* C3: at every instant the addresses being verified, across all domains,
\* number at most max_concurrent.
C3_GlobalLimit == Cardinality(BeingVerified) <= max_concurrent

\* max_concurrent addresses are being verified (one of them waiting out a
\* backoff) and a further task has not got its slot yet.
C3_Witness ==
  /\ Cardinality(BeingVerified) = max_concurrent
  /\ \E i \in Tasks : pc[i] = "sleep"
  /\ \E i \in Tasks : pc[i] = "new"

\* C4: an address whose first probe is answered 450/451 and whose second
\* probe is answered 250 ends deliverable, with wasGreylisted = true and
\* attempts = 2.
C4_GreylistedThenAccepted ==
  \A i \in Tasks :
    ( /\ pc[i] = "done"
      /\ Len(hist[i]) = 2
      /\ Answered(hist[i][1], {450, 451})
      /\ Answered(hist[i][2], {250}) )
    => /\ ret[i].valid = "True"
       /\ ret[i].greylist
       /\ ret[i].attempts = 2

\* The probes task i has issued for its own address.
Issued(i) == Len(hist[i]) + (IF pc[i] = "probe" THEN 1 ELSE 0)

\* C5: an address whose every probe is answered 450/451 ends indeterminate
\* with errorKind greylist_timeout, wasGreylisted = true and attempts =
\* 1 + greylist_max_retries, and exactly 1 + greylist_max_retries probes are
\* issued for it (never more, for any address).
C5_GreylistTimeout ==
  \A i \in Tasks :
    /\ Issued(i) <= 1 + greylist_max_retries
    /\ ( /\ pc[i] = "done"
         /\ hist[i] # <<>>
         /\ \A k \in 1..Len(hist[i]) : Answered(hist[i][k], {450, 451}) )
       => /\ ret[i].valid = None
          /\ ret[i].error = "greylist_timeout"
          /\ ret[i].greylist
          /\ ret[i].attempts = 1 + greylist_max_retries
          /\ Len(hist[i]) = 1 + greylist_max_retries

\* An engine that retries has ended a verification after nothing but
\* 450/451 answers, the last of them a 451.
C5_Witness ==
  \E i \in Tasks :
    /\ greylist_max_retries >= 1
    /\ pc[i] = "done"
    /\ Len(hist[i]) = 1 + greylist_max_retries
    /\ \A k \in 1..Len(hist[i]) : Answered(hist[i][k], {450, 451})
    /\ Answered(hist[i][Len(hist[i])], {451})

\* C6: once the engine has recorded a domain as catch-all, every
\* verification that begins later for an address of that domain returns
\* indeterminate with isCatchAll = true and confidence = low, and issues no
\* probe.
C6_CatchAllSticks ==
  \A i \in Tasks :
    afterCatchAll[i] =>
      /\ pc[i] \notin {"ca_probe", "probe", "sleep"}
      /\ hist[i] = <<>>
      /\ pc[i] = "done" =>
           /\ ret[i].catch_all
           /\ ret[i].confidence = "low"
           /\ ret[i].valid = None

\* C7: at most one synthetic probe is ever issued for a domain, also when
\* several addresses of the domain are verified concurrently.
C7_OneSyntheticProbePerDomain == \A d \in Domains : synth[d] <= 1

\* C8, as amended: a probe never raises, and a failure of connect, the
\* greeting, MAIL FROM or RCPT TO becomes a result that is indeterminate, of
\* unknown confidence and with an errorKind; a failure of QUIT alone is
\* swallowed and the result stays what the RCPT TO response made it.
C8_ProbeFailuresBecomeResults ==
  /\ probe.pc # "raise"
  /\ probe.pc = "return" =>
       IF probe.exc # None
         THEN /\ probe.res.valid = None
              /\ probe.res.confidence = "unknown"
              /\ probe.res.error \notin {None, ""}
         ELSE probe.res = Classify(NewResult(probe.res.email), probe.res.code[1])

\* C8 as stated: a failure at any step, QUIT included, becomes a result that
\* is indeterminate, of unknown confidence and with an errorKind.
C8_AnyStepFailureIndeterminate ==
  /\ probe.pc # "raise"
  /\ (probe.pc = "return" /\ (probe.exc # None \/ probe.swallowed)) =>
       /\ probe.res.valid = None
       /\ probe.res.confidence = "unknown"
       /\ probe.res.error \notin {None, ""}

\* A probe has returned after RCPT TO raised an exception that is neither a
\* timeout nor an SMTPException, and QUIT raised too.
C8_Witness ==
  /\ probe.pc = "return"
  /\ probe.exc = "error"
  /\ probe.sent = Steps
  /\ probe.swallowed

Malformed(e) == ~HasAt(e) \/ SubSeq(e, FirstAt(e) + 1, Len(e)) = <<>>

\* C10: the verification of an address with no "@" or with an empty domain
\* part returns undeliverable with errorKind invalid_format, and issues no
\* DNS query and no probe.
C10_MalformedAddress ==
  \A i \in Tasks :
    Malformed(emails[i]) =>
      /\ pc[i] \in {"new", "wait_domain", "done"}
      /\ hist[i] = <<>>
      /\ pc[i] = "done" =>
           /\ ret[i].valid = "False"
           /\ ret[i].error = "invalid_format"

\* The verification of an address with an empty domain part has ended.
C10_Witness ==
  \E i \in Tasks : pc[i] = "done" /\ emails[i] = <<"a", "@">>

\* C11: the verification of an address whose domain resolves to an empty
\* mail-host list returns undeliverable with errorKind no_mx_records and
\* issues no probe, synthetic or of the address: it ends in the stretch in
\* which resolve returns, and has issued nothing before resolve returned.
C11_NoMxRecords ==
  \A i \in Tasks :
    /\ resolved[i] = <<>> =>
         /\ pc[i] \in {"new", "wait_domain", "dns", "done"}
         /\ hist[i] = <<>>
    /\ resolved[i] = << <<>> >> =>
         /\ pc[i] = "done"
         /\ hist[i] = <<>>
         /\ ret[i].valid = "False"
         /\ ret[i].error = "no_mx_records"
         /\ ~ret[i].catch_all

\* A verification has ended on an empty list that resolve returned after a
\* query which failed without being cached.
C11_Witness ==
  \E i \in Tasks :
    /\ resolved[i] = << <<>> >>
    /\ pc[i] = "done"
    /\ mx_cache[DomainOf(i)] = <<>>

\* C12: resolve issues a DNS query if and only if the cache holds no entry
\* of the domain younger than the TTL; a resolve served from the cache
\* returns the list of the latest resolve of the domain that completed with
\* hosts or with no mail-exchange records; and a resolve made once the
\* entry's age has reached the TTL replaces the entry when it returns.
C12_CacheWithinTtl ==
  LET l == resolver.last
      e == resolver.cache[l.d]
  IN  /\ l.k \in {"hit", "query"} =>
           (l.k = "query" <=>
              ~(e # <<>> /\ l.at - e[1].cached_at < resolver.ttl))
      /\ l.k = "hit" =>
           /\ resolver.returned[l.d] # <<>>
           /\ l.ret = resolver.returned[l.d][1]
      /\ (l.k = "return" /\ l.stale) =>
           e = << [records |-> l.ret, cached_at |-> l.at] >>

\* C13: every resolution failure, the domain having no mail-exchange records
\* or the query failing with any other error, returns an empty list and
\* stores an empty host list in the cache, as a success is stored.
C13_FailuresCached ==
  LET l == resolver.last
  IN  (l.k = "return" /\ l.o # "answer") =>
        /\ l.ret = <<>>
        /\ resolver.cache[l.d] = << [records |-> <<>>, cached_at |-> l.at] >>

\* C14: within one TTL window at most one DNS query is issued per domain:
\* any two queries of a domain are issued at least a TTL apart, also when
\* several resolves of the domain are made before the first query returned.
C14_OneQueryPerWindow ==
  \A d \in Domains :
    \A i, j \in 1..Len(resolver.issued[d]) :
      i < j => resolver.issued[d][j] - resolver.issued[d][i] >= resolver.ttl

\* The dialogue of the last probe task i issued for its own address.
LastDialogue(i) == hist[i][Len(hist[i])]

\* C15: the result of a probe whose RCPT TO was answered with code c records
\* c and is deliverable for 250, indeterminate with wasGreylisted = true for
\* 450 and 451, undeliverable for each of 550, 551, 552, 553 and 554.
C15_Classification ==
  \A i \in Tasks :
    (pc[i] = "done" /\ hist[i] # <<>>) =>
      \A c \in {250, 450, 451, 550, 551, 552, 553, 554} :
        Answered(LastDialogue(i), {c}) =>
          /\ ret[i].code = << c >>
          /\ c = 250 => ret[i].valid = "True" /\ ~ret[i].greylist
          /\ c \in {450, 451} => ret[i].valid = None /\ ret[i].greylist
          /\ c \in {550, 551, 552, 553, 554} =>
               ret[i].valid = "False" /\ ~ret[i].greylist

\* A verification has ended on a probe answered 554, its first probe having
\* been answered 451.
C15_Witness ==
  \E i \in Tasks :
    /\ pc[i] = "done"
    /\ Len(hist[i]) = 2
    /\ Answered(hist[i][1], {451})
    /\ Answered(hist[i][2], {554})
    /\ ret[i].valid = "False"

\* C16: a probe whose RCPT TO was answered with a code that is none of 250,
\* 450, 451, 550-554 returns indeterminate, of unknown confidence and with
\* an errorKind.
C16_OtherCodes ==
  \A i \in Tasks :
    ( /\ pc[i] = "done"
      /\ hist[i] # <<>>
      /\ Answered(LastDialogue(i),
                  RcptCodes \ {250, 450, 451, 550, 551, 552, 553, 554}) )
    => /\ ret[i].valid = None
       /\ ret[i].confidence = "unknown"
       /\ ret[i].error \notin {None, ""}

\* The results that exist: those the tasks have returned and those
\* verify_batch has returned.
AllResults ==
  {ret[i] : i \in {j \in Tasks : pc[j] = "done"}}
    \cup {output[i] : i \in 1..Len(output)}

Buckets(r) ==
  {b \in {"catch_all", "greylist", "errors"} :
     \/ b = "catch_all" /\ InCatchAll(r)
     \/ b = "greylist" /\ InGreylist(r)
     \/ b = "errors" /\ InErrors(r)}

\* C18: in the statistics of a batch no result is counted in more than one
\* of the buckets catch_all, greylist and errors, so that the three counts
\* together do not exceed the total.
C18_DisjointBuckets ==
  phase = "returned" =>
    /\ \A i \in 1..Len(output) : Cardinality(Buckets(output[i])) <= 1
    /\ LET st == Stats(output)
       IN  st.catch_all + st.greylist + st.errors <= st.total

\* C19: given a progress callback, verify_batch calls it len(addresses)
\* times before it returns; the k-th call gets (k, len(addresses)) and is
\* made only when k addresses have reached their terminal outcome.
C19_ProgressCallback ==
  callback =>
    /\ \A k \in 1..Len(progress) : progress[k] = << k, Len(emails) >>
    /\ Len(progress) <= Cardinality({i \in Tasks : pc[i] = "done"})
    /\ phase = "returned" => Len(progress) = Len(emails)

\* A batch of three addresses given a callback has returned, its first
\* address not the first to complete.
C19_Witness ==
  /\ callback
  /\ phase = "returned"
  /\ Len(progress) = 3
  /\ completed[1] # 1

\* C20: in every result returned by verify_single or verify_batch,
\* isCatchAll = true implies confidence = low and outcome indeterminate.
C20_CatchAllIsLowConfidence ==
  \A r \in AllResults :
    r.catch_all => r.confidence = "low" /\ r.valid = None

\* verify_batch has returned a catch-all result that came from the cached
\* verdict of an earlier call.
C20_Witness ==
  /\ phase = "returned"
  /\ calls = 2
  /\ \E i \in 1..Len(output) : output[i].catch_all /\ synth[DomainOf(i)] = 1

\* C21: a probe of a real address that ends with anything other than a
\* 450/451 response is final: every probe that was followed by a backoff
\* delay or by another probe of the address had been answered 450 or 451.
C21_OnlyGreylistRetries ==
  \A i \in Tasks :
    /\ \A k \in 1..(Len(hist[i]) - 1) : Answered(hist[i][k], {450, 451})
    /\ (pc[i] \in {"sleep", "probe"} /\ hist[i] # <<>>) =>
         Answered(LastDialogue(i), {450, 451})

\* On an engine that retries, a verification has ended after a single probe
\* that timed out at RCPT TO.
C21_Witness ==
  \E i \in Tasks :
    /\ greylist_max_retries >= 1
    /\ pc[i] = "done"
    /\ Len(hist[i]) = 1
    /\ hist[i][1]["rcpt"] = Raises("timeout")
    /\ ret[i].error = "timeout"

\* The sequences of steps a probe can have issued: connect, greeting, MAIL
\* FROM, RCPT TO in this order up to some point, then QUIT if connect
\* succeeded.
StepOrders ==
  { SubSeq(Steps, 1, n) : n \in 0..4 }
    \cup { Append(SubSeq(Steps, 1, n), "quit") : n \in 2..4 }

\* C22: within one probe the steps occur only in the order connect,
\* greeting, MAIL FROM, RCPT TO, QUIT, no other step is issued, and a probe
\* whose connect succeeded does not end without having attempted QUIT.
C22_StepOrder ==
  probe.pc # "idle" =>
    /\ probe.sent \in StepOrders
    /\ (probe.pc \in {"return", "raise"} /\ Len(probe.sent) >= 2) =>
         probe.sent[Len(probe.sent)] = "quit"

\* A probe has returned after MAIL FROM timed out, QUIT having been
\* attempted after it.
C22_Witness ==
  /\ probe.pc = "return"
  /\ probe.exc = "timeout"
  /\ probe.sent = <<"connect", "ehlo", "mail", "quit">>

\* C23: is_catch_all returns true exactly when its synthetic probe was
\* answered 250 and false after any other end of that probe; the task does
\* not issue the synthetic probe again; and a false verdict, once recorded,
\* stays the cached verdict of the domain.
C23_CatchAllVerdict ==
  /\ \A i \in Tasks :
       /\ synthAnswer[i] # "none" => pc[i] # "ca_probe"
       /\ synthAnswer[i] = "accepted" => pc[i] = "done" /\ ret[i].catch_all
       /\ synthAnswer[i] = "other" =>
            /\ pc[i] \in {"probe", "sleep", "done"}
            /\ pc[i] = "done" => ~ret[i].catch_all
  /\ \A d \in Domains :
       everNotCatchAll[d] => catch_all_cache[d] = << FALSE >>

\* The name without its trailing dot.
WithoutDot(h) ==
  IF h # <<>> /\ h[Len(h)] = "." THEN SubSeq(h, 1, Len(h) - 1) ELSE h

\* C24: on a cache miss with a successful DNS answer, resolve returns the
\* answer's host names in an order of ascending priority value, each without
\* its trailing dot, and stores that same list in the cache.
C24_SortedStripped ==
  LET l == resolver.last
      n == Len(l.answer)
  IN  (l.k = "return" /\ l.o = "answer") =>
        /\ Len(l.ret) = n
        /\ \E f \in Permutations(1..n) :
             /\ \A k \in 1..n : l.ret[k] = WithoutDot(l.answer[f[k]].host)
             /\ \A k \in 1..(n - 1) :
                  l.answer[f[k]].priority <= l.answer[f[k + 1]].priority
        /\ resolver.cache[l.d] = << [records |-> l.ret, cached_at |-> l.at] >>

\* A query has been answered with three records, the best priority last and
\* the names ending in a dot, and resolve has returned.
C24_Witness ==
  LET l == resolver.last
  IN  /\ l.k = "return"
      /\ l.o = "answer"
      /\ l.answer = << [priority |-> 10, host |-> <<"m", ".">>],
                       [priority |-> 10, host |-> <<"n">>],
                       [priority |-> 5, host |-> <<"m", ".", "n", ".">>] >>
      /\ l.ret = << <<"m", ".", "n">>, <<"m">>, <<"n">> >>

\* C25, as amended: attempts is at least 1 in every result; it is the
\* number of probes made for the address itself when at least one was made
\* (the synthetic probe not counted) and 1 when none was made.
C25_Attempts ==
  \A i \in Tasks :
    pc[i] = "done" =>
      /\ ret[i].attempts >= 1
      /\ ret[i].attempts = (IF hist[i] = <<>> THEN 1 ELSE Len(hist[i]))

\* C25 as stated: attempts is the number of probes made for the address
\* itself and is at least 1.
C25_AttemptsCountProbes ==
  \A i \in Tasks :
    pc[i] = "done" => (ret[i].attempts = Len(hist[i]) /\ ret[i].attempts >= 1)

\* A verification has ended after two probes of its address, the first
\* greylisted, and its result counts two attempts.
C25_Witness ==
  \E i \in Tasks :
    /\ pc[i] = "done"
    /\ Len(hist[i]) = 2
    /\ ret[i].attempts = 2

\* C28: in every result the greylist flag is set exactly when the error is
\* greylist_timeout.
C28_GreylistIffTimeout ==
  \A r \in AllResults : r.greylist <=> (r.error = "greylist_timeout")

\* A verification has ended greylisted after its retries, and verify_batch
\* has returned that result.
C28_Witness ==
  /\ phase = "returned"
  /\ \E i \in 1..Len(output) :
       /\ output[i].greylist
       /\ output[i].error = "greylist_timeout"
       /\ Len(hist[i]) = 1 + greylist_max_retries

\* C26: every verify_batch call eventually returns, whatever the domains
\* of its addresses and the limits max_concurrent >= 1 and max_per_domain >= 1:
\* the tasks waiting for the global and the per-domain semaphore never
\* deadlock, and each gets its slots.
C26_BatchReturns == (phase = "running") ~> (phase = "returned")

\* Three tasks of one domain contend: one holds both slots, one holds the
\* last global slot and waits for the domain's, one waits for a global slot.
C26_Witness ==
  \E i, j, k \in Tasks :
    /\ pc[i] \in {"dns", "ca_probe", "probe", "sleep"}
    /\ pc[j] = "wait_domain"
    /\ pc[k] = "new"
    /\ DomainOf(i) = DomainOf(j)
    /\ global_semaphore[1] = 0
    /\ domain_semaphores[DomainOf(i)] = 0

\* The task of address e that as_completed yielded last.
LastCompleted(e) ==
  LET ks == {k \in 1..Len(completed) : emails[completed[k]] = e}
  IN  completed[CHOOSE k \in ks : \A j \in ks : j <= k]

\* C27: when the list holds the same address at two positions, each
\* occurrence is verified by a task of its own, and verify_batch returns at
\* both positions one result: that of the occurrence that completed last.
C27_Duplicates ==
  phase = "returned" =>
    \A i, j \in Tasks :
      (i # j /\ emails[i] = emails[j]) =>
        /\ pc[i] = "done" /\ pc[j] = "done"
        /\ \E k, l \in 1..Len(completed) : k # l /\ completed[k] = i /\ completed[l] = j
        /\ output[i] = output[j]
        /\ output[i] = ret[LastCompleted(emails[i])]

\* verify_batch has returned for a list with the same address at positions
\* 1 and 2; both occurrences were probed, with different results, and the
\* first completed last.
C27_Witness ==
  /\ phase = "returned"
  /\ Len(emails) >= 2
  /\ emails[1] = emails[2]
  /\ hist[1] # <<>> /\ hist[2] # <<>>
  /\ ret[1] # ret[2]
  /\ LastCompleted(emails[1]) = 1
  /\ output[2] = ret[1]

\* The tasks inside "async with self._global_semaphore".
HoldsGlobal == {i \in Tasks : pc[i] \in {"wait_domain", "dns", "ca_probe", "probe", "sleep"}}

\* The tasks inside "async with self._domain_semaphores[d]".
HoldsDomain(d) ==
  {i \in Tasks : DomainOf(i) = d /\ pc[i] \in {"dns", "ca_probe", "probe", "sleep"}}

\* C29: a task in the backoff delay after a greylisted probe holds its
\* global slot and its domain's slot: the free slots of each semaphore are
\* its limit less the tasks between entering and ending, the sleeping ones
\* included, so no other task can take a sleeping task's slot, and a slot is
\* given back only by a task that has ended.
C29_SlotsHeldDuringBackoff ==
  global_semaphore # <<>> =>
    /\ global_semaphore[1] = max_concurrent - Cardinality(HoldsGlobal)
    /\ global_semaphore[1] >= 0
    /\ \A d \in Domains :
         /\ domain_semaphores[d] = max_per_domain - Cardinality(HoldsDomain(d))
         /\ domain_semaphores[d] >= 0

\* A task is in its backoff delay while a task of the same domain waits for
\* the domain's slot and a third waits for a global slot: neither gets it.
C29_Witness ==
  \E i, j, k \in Tasks :
    /\ pc[i] = "sleep"
    /\ pc[j] = "wait_domain"
    /\ DomainOf(j) = DomainOf(i)
    /\ domain_semaphores[DomainOf(i)] = 0
    /\ pc[k] = "new"
    /\ global_semaphore[1] = 0

\* The tasks of the overlapping calls whose address is being verified.
OverlapVerifying == {t \in OverlapTasks : overlap.tasks[t].pc = "verifying"}

\* C30: when two verify_batch calls overlap on one engine, the addresses
\* being verified across both calls never number more than max_concurrent.
C30_GlobalLimitAcrossCalls == Cardinality(OverlapVerifying) <= max_concurrent

====
